---------------------------- MODULE Spec2Model ----------------------------
(***************************************************************************)
(* Model of src/selective_back_propagation.py: class                       *)
(* SelectiveBackPropagation.                                               *)
(*                                                                         *)
(* Encoding.                                                               *)
(*  - A per-example loss is an integer.  A percentile cut-point, which     *)
(*    numpy interpolates linearly between two order statistics, is held    *)
(*    as the integer 100 * cut-point (the interpolation weight is a        *)
(*    multiple of 1/100), so "loss < cut-point" is decided exactly as      *)
(*    100 * loss < Cut100.  Floating-point rounding is not modelled.       *)
(*  - A percentile rank is held as its index k in 0..99 (the code returns  *)
(*    k / 100); a selection probability as k * k (the code: (k/100)^2);    *)
(*    a uniform draw u in [0,1) as the integer 10000 * u in 0..9999.       *)
(*  - Sequences are 1-based: example idx of the code is idx + 1 here.      *)
(*  - Row idx of the data (targets) tensor of the n-th call is the tuple   *)
(*    <<"x", n, idx>> (<<"y", n, idx>>); a tensor is known by its number   *)
(*    of rows.                                                             *)
(*  - The collaborators (model, compute_losses_func, update_weights_func)  *)
(*    are opaque: each either returns or raises, chosen by the input       *)
(*    `fail` of a call.  The mean loss of a fire is known by the ordinal   *)
(*    of the update_weights_func invocation it belongs to.                 *)
(*  - The arguments of a call are tensors as annotated in lines 108-110.   *)
(*    batch_size in those annotations is the type int (line 14), not a     *)
(*    dimension, so they relate no two tensors' shapes.  What the          *)
(*    typeguard and torchtyping libraries check at run time (line 105) is  *)
(*    library code and is not modelled: a call is the function body.       *)
(*  - Spec is the instances of positive sizes and their calls;             *)
(*    SpecAnyConfig the constructions of any sign and the calls of what    *)
(*    they construct; SpecPercentiles the function _percentiles applied    *)
(*    to histories and queries of any content.                             *)
(***************************************************************************)
EXTENDS Integers, Sequences, FiniteSets, TLC

\* ------------------------------------------------------------- bounds
\* Number of calls of selective_back_propagation in a run.
MaxCalls == 2

\* Numbers of examples of an incoming batch, and their per-example losses.
BatchLengths == {1, 2}
LossVals == {0, 1, 2}
\* Configurations the instance is constructed with.
BatchSizes == {1, 2}
EpochLengths == {1, 2}
\* 0 stands for the default False (falsy: threshold disabled).
Thresholds == {0, 1}
\* Uniform draws in [0,1), times 10000: the smallest and the largest.
DrawVals == {0, 9999}
\* Per-example losses of the calls whose data or targets do not match.
MismatchedLossVals == {0, 2}
\* Arguments of a construction of any sign.
AnyBatchSizes == {-1, 0, 1}
AnyEpochLengths == {-1, 0, 1}
AnyThresholds == {-1, 0, 1}

\* ------------------------------------------------------------ helpers
RECURSIVE InsertSorted(_, _)
\* s with value v inserted after every element <= v (s non-decreasing).
InsertSorted(s, v) ==
    IF s = << >> THEN << v >>
    ELSE IF v < Head(s) THEN << v >> \o s
    ELSE << Head(s) >> \o InsertSorted(Tail(s), v)

RECURSIVE SortValues(_)
\* The values of s in non-decreasing order.
SortValues(s) ==
    IF s = << >> THEN << >>
    ELSE InsertSorted(SortValues(SubSeq(s, 1, Len(s) - 1)), s[Len(s)])

\* The last n elements of s (all of s when it has fewer).
LastN(s, n) ==
    IF Len(s) <= n THEN s ELSE SubSeq(s, Len(s) - n + 1, Len(s))

\* Mutant of DequeExtend: the overflow is cut off at the tail, so the
\* oldest values stay.
DequeExtendKeepsOldest(hist, values, maxlen) ==
    LET all == hist \o values
    IN IF Len(all) <= maxlen THEN all ELSE SubSeq(all, 1, maxlen)

\* deque(maxlen).extend(values): append at the tail, evict from the head.
DequeExtend(hist, values, maxlen) == LastN(hist \o values, maxlen)

\* np.percentile(hist_values, k), times 100, linear interpolation:
\* virtual index k/100 * (n-1) into the sorted values.
Cut100(sorted, k) ==
    LET n  == Len(sorted)
        v  == k * (n - 1)
        lo == v \div 100
        hi == IF lo + 1 < n THEN lo + 1 ELSE n - 1
    IN 100 * sorted[lo + 1] + (v - 100 * lo) * (sorted[hi + 1] - sorted[lo + 1])

\* np.percentile(hist_values, range(100)), times 100.
PercentilesValues(hist) ==
    LET sorted == SortValues(hist)
    IN [k \in 0..99 |-> Cut100(sorted, k)]

RECURSIVE InsertIdx(_, _, _)
\* order (indices sorted by value, stable) with index i inserted.
InsertIdx(order, i, vals) ==
    IF order = << >> THEN << i >>
    ELSE IF vals[i] < vals[Head(order)] THEN << i >> \o order
    ELSE << Head(order) >> \o InsertIdx(Tail(order), i, vals)

RECURSIVE SortedLossIdxUpTo(_, _)
SortedLossIdxUpTo(vals, n) ==
    IF n = 0 THEN << >>
    ELSE InsertIdx(SortedLossIdxUpTo(vals, n - 1), n, vals)

\* sorted(range(len(values_to_search)), key=lambda k: values_to_search[k])
SortedLossIdx(vals) == SortedLossIdxUpTo(vals, Len(vals))


RECURSIVE WhileLoop(_, _, _, _, _)
\* Lines 166-170, the while loop for cut-point idx.  st = <<counter,
\* percentiles_by_loss>>; counter is the code's (0-based) cursor into
\* sorted_loss_idx, so the query at the cursor is order[counter + 1].
WhileLoop(vals, order, cut, idx, st) ==
    LET counter == st[1]
        q       == order[counter + 1]
    IN IF 100 * vals[q] < cut
       THEN LET next == << counter + 1, [st[2] EXCEPT ![q] = idx] >>
            IN IF next[1] = Len(vals) THEN next
               ELSE WhileLoop(vals, order, cut, idx, next)
       ELSE st

RECURSIVE ForLoop(_, _, _, _, _, _)
\* Lines 165-172, the for loop over enumerate(percentiles_values), for the
\* cut-points idx in from..to.  Once counter == len(values_to_search) the
\* loop has left by break and the remaining cut-points do nothing.  (The
\* range is halved rather than walked one by one only to keep the depth of
\* the evaluation small; the cut-points are still visited in order.)
ForLoop(vals, order, cuts, from, to, st) ==
    IF st[1] = Len(vals) THEN st
    ELSE IF from = to THEN WhileLoop(vals, order, cuts[from], from, st)
    ELSE LET mid == (from + to) \div 2
         IN ForLoop(vals, order, cuts, mid + 1, to,
                    ForLoop(vals, order, cuts, from, mid, st))

\* Mutant of Walk: a query no cut-point exceeds gets the top rank.
WalkDefaultTop(hist, vals) ==
    ForLoop(vals, SortedLossIdx(vals), PercentilesValues(hist), 0, 99,
            << 0, [i \in 1..Len(vals) |-> 99] >>)

\* Mutant of Walk: the queries are walked in the order they come in.
WalkUnsorted(hist, vals) ==
    ForLoop(vals, [i \in 1..Len(vals) |-> i], PercentilesValues(hist), 0, 99,
            << 0, [i \in 1..Len(vals) |-> 0] >>)

\* Lines 161-172 of _percentiles: the cursor and the rank indices the walk
\* ends with, from counter = 0 and percentiles_by_loss = [0] * len.
Walk(hist, vals) ==
    ForLoop(vals, SortedLossIdx(vals), PercentilesValues(hist), 0, 99,
            << 0, [i \in 1..Len(vals) |-> 0] >>)

\* _percentiles(hist_values, values_to_search), lines 153-173: the rank
\* index (the code's result times 100) of every query.
Percentiles(hist, vals) == Walk(hist, vals)[2]

Batches(S) == UNION {[1..q -> S] : q \in BatchLengths}

\* The histories a call can rank against: non-empty, no longer than the
\* largest capacity.
MaxCapacity ==
    CHOOSE m \in {b * e : b \in BatchSizes, e \in EpochLengths} :
        \A b \in BatchSizes, e \in EpochLengths : b * e <= m
Histories == UNION {[1..n -> LossVals] : n \in 1..MaxCapacity}

\* The walk, evaluated once for every history and batch of losses (@@
\* makes the function an explicit table).
WalkTable ==
    [hv \in Histories \X Batches(LossVals) |-> Walk(hv[1], hv[2])] @@ << >>

\* _percentiles as the calls use it.  On an empty history np.percentile
\* has no number to return: where it returns cut-points that are not
\* numbers, no comparison of line 166 holds and every rank stays 0.
PercentilesOf(hist, vals) ==
    IF hist = << >> THEN [i \in 1..Len(vals) |-> 0]
    ELSE WalkTable[<< hist, vals >>][2]

\* _get_selection_probabilities(loss), lines 149-151: percentiles ** 2
\* (times 10000).
SelectionProbabilities(hist, vals) ==
    LET percentiles == PercentilesOf(hist, vals)
    IN [i \in 1..Len(vals) |-> percentiles[i] * percentiles[i]]

\* -------------------------------------------------------------- state
VARIABLES
    batch_size,                \* self.batch_size
    epoch_length,              \* the epoch_length the instance was built with
    loss_selection_threshold,  \* self.loss_selection_threshold (0: False)
    loss_hist,                 \* self.loss_hist
    selected_inputs,           \* self.selected_inputs
    selected_targets,          \* self.selected_targets
    training,                  \* self.model.training (train() / eval())
    updates,                   \* invocations of self.update_weights_func so far
    calls,                     \* calls of selective_back_propagation so far
    recorded,                  \* every loss ever passed to loss_hist.extend
    selected,                  \* examples the masks of the calls so far selected
    raised,                    \* whether a call so far has raised
    constructed,               \* whether __init__ returned an instance
    last                       \* the last call: its inputs, the state before
                               \* it, what it computed and how it ended

config == << batch_size, epoch_length, loss_selection_threshold >>
vars   == << batch_size, epoch_length, loss_selection_threshold, loss_hist,
             selected_inputs, selected_targets, training, updates, calls,
             recorded, selected, raised, constructed, last >>

\* deque([], maxlen=batch_size * epoch_length), line 98.
Capacity == batch_size * epoch_length

\* The return value None (line 112) and the mean loss of the n-th update.
NoValue == << >>
MeanLoss(n) == << n >>

\* What a call's collaborators do: nothing raises, or the named one raises
\* in the n-th fire of the call (a call of q examples fires at most q times).
NoFail == << "none", 0 >>
Fails == {NoFail} \cup ({"forward", "loss", "update"} \X BatchLengths)

\* data[idx, ...] and targets[idx, ...] of call n (lines 129-130).
DataRow(n, idx) == << "x", n, idx >>
TargetRow(n, idx) == << "y", n, idx >>

\* One invocation of a collaborator in a fire: it is logged with the mode
\* the model is in, and it raises when the call's fail names it in this
\* fire.
Invoke(c, st, op) ==
    LET logged == [st EXCEPT !.events =
                       Append(st.events, [op |-> op, training |-> st.training])]
    IN IF c.fail = << op, Len(st.fires) >>
       THEN [logged EXCEPT !.raised = op]
       ELSE logged

\* A step of the fire that no collaborator takes part in.
Log(st, op) ==
    [st EXCEPT !.events =
         Append(st.events, [op |-> op, training |-> st.training])]

\* Line 132: self.model.train().
ModelTrain(st) == [Log(st, "train") EXCEPT !.training = TRUE]

\* Line 133: self.model(torch.stack(self.selected_inputs)); the fire and
\* the stacks it works on (that of the targets is made in line 135) are
\* noted.
Forward(c, st) ==
    Invoke(c, [st EXCEPT !.fires = Append(st.fires,
                             [inputs  |-> st.selected_inputs,
                              targets |-> st.selected_targets])],
           "forward")

\* Lines 134-136: self.compute_losses_func(predictions, stacked targets).
ComputeLosses(c, st) == Invoke(c, st, "loss")

\* Line 137: self.update_weights_func(effective_batch_loss).
UpdateWeights(c, st) ==
    Invoke(c, [st EXCEPT !.updates = st.updates + 1], "update")

\* Mutant of Mean: the value of the first fire of a call is kept.
MeanKeepsFirst(st) ==
    IF st.effective_batch_loss = NoValue
    THEN [Log(st, "mean") EXCEPT !.effective_batch_loss = MeanLoss(st.updates)]
    ELSE Log(st, "mean")

\* Line 138: effective_batch_loss = effective_batch_loss.mean().
Mean(st) ==
    [Log(st, "mean") EXCEPT !.effective_batch_loss = MeanLoss(st.updates)]

\* Line 139: self.model.eval().
ModelEval(st) == [Log(st, "eval") EXCEPT !.training = FALSE]

\* Mutant of Reset: selected_targets is not reset (line 141 missing).
ResetInputsOnly(st) ==
    [Log(st, "reset") EXCEPT !.selected_inputs = << >>]

\* Lines 140-141: both lists are reset.
Reset(st) ==
    [Log(st, "reset") EXCEPT !.selected_inputs = << >>,
                             !.selected_targets = << >>]

\* Mutant of Fire: the lists are reset before the collaborators are called.
FireResetsFirst(c, st) ==
    LET s1 == ModelTrain(st)
        s2 == Forward(c, s1)
        r2 == [s2 EXCEPT !.selected_inputs = << >>, !.selected_targets = << >>]
        s3 == IF r2.raised # "none" THEN r2 ELSE ComputeLosses(c, r2)
        s4 == IF s3.raised # "none" THEN s3 ELSE UpdateWeights(c, s3)
    IN IF s4.raised # "none" THEN s4 ELSE Log(ModelEval(Mean(s4)), "reset")

\* Mutant of Fire: the model is switched back to evaluation mode before
\* update_weights_func is called.
FireEvalBeforeUpdate(c, st) ==
    LET s1 == ModelTrain(st)
        s2 == Forward(c, s1)
        s3 == IF s2.raised # "none" THEN s2 ELSE ModelEval(ComputeLosses(c, s2))
        s4 == IF s3.raised # "none" THEN s3 ELSE UpdateWeights(c, s3)
    IN IF s4.raised # "none" THEN s4 ELSE Reset(Mean(s4))

\* Mutant of Fire: an exception of a collaborator is swallowed.
FireSwallows(c, st) ==
    LET s1 == ModelTrain(st)
        s2 == Forward(c, s1)
        s3 == ComputeLosses(c, s2)
        s4 == UpdateWeights(c, s3)
    IN [Reset(ModelEval(Mean(s4))) EXCEPT !.raised = "none"]

\* Lines 132-141: the accumulator has reached batch_size.  c is the call
\* (its number n, selection, rows and fail); st the locals and fields the
\* loop works on.  An exception of a collaborator ends the fire where it
\* is raised.
Fire(c, st) ==
    LET s1 == ModelTrain(st)
        s2 == Forward(c, s1)
        s3 == IF s2.raised # "none" THEN s2 ELSE ComputeLosses(c, s2)
        s4 == IF s3.raised # "none" THEN s3 ELSE UpdateWeights(c, s3)
    IN IF s4.raised # "none" THEN s4 ELSE Reset(ModelEval(Mean(s4)))

\* Mutant of Select: the fire waits for one example more than batch_size.
SelectOneLate(c, idx, st) ==
    IF idx > c.rows_data THEN [st EXCEPT !.raised = "IndexError"]
    ELSE LET got == [st EXCEPT !.selected_inputs =
                         Append(st.selected_inputs, DataRow(c.n, idx))]
         IN IF idx > c.rows_targets THEN [got EXCEPT !.raised = "IndexError"]
            ELSE LET both == [got EXCEPT !.selected_targets =
                                  Append(got.selected_targets, TargetRow(c.n, idx))]
                 IN IF Len(both.selected_targets) = c.batch_size + 1
                    THEN Fire(c, both)
                    ELSE both

\* Lines 127-141: the loop body for one selected idx.
Select(c, idx, st) ==
    IF idx > c.rows_data THEN [st EXCEPT !.raised = "IndexError"]
    ELSE LET got == [st EXCEPT !.selected_inputs =
                         Append(st.selected_inputs, DataRow(c.n, idx))]
         IN IF idx > c.rows_targets THEN [got EXCEPT !.raised = "IndexError"]
            ELSE LET both == [got EXCEPT !.selected_targets =
                                  Append(got.selected_targets, TargetRow(c.n, idx))]
                 IN IF Len(both.selected_targets) = c.batch_size
                    THEN Fire(c, both)
                    ELSE both

RECURSIVE LoopOverAll(_, _, _)
\* Mutant of Loop: every index of the batch is taken, selected or not.
LoopOverAll(c, idx, st) ==
    IF idx > Len(c.selection) \/ st.raised # "none" THEN st
    ELSE LoopOverAll(c, idx + 1, Select(c, idx, st))

RECURSIVE Loop(_, _, _)
\* Line 126: for idx in np.argwhere(selection).flatten(), from idx on;
\* an exception ends the loop.
Loop(c, idx, st) ==
    IF idx > Len(c.selection) \/ st.raised # "none" THEN st
    ELSE IF c.selection[idx] THEN Loop(c, idx + 1, Select(c, idx, st))
    ELSE Loop(c, idx + 1, st)

\* Mutant of Sampled: >= for >.
SampledAtLeast(probabilities, draws) ==
    [i \in DOMAIN probabilities |-> probabilities[i] >= draws[i]]

\* Line 119: selection_probabilities > np.random.random(shape).
Sampled(probabilities, draws) ==
    [i \in DOMAIN probabilities |-> probabilities[i] > draws[i]]

\* Mutant of Selection: logical_and for logical_or.
SelectionAnd(threshold, losses, sampled) ==
    IF threshold # 0
    THEN [i \in DOMAIN losses |-> (losses[i] > threshold) /\ sampled[i]]
    ELSE sampled

\* Mutant of Selection: >= for >.
SelectionAtThreshold(threshold, losses, sampled) ==
    IF threshold # 0
    THEN [i \in DOMAIN losses |-> (losses[i] >= threshold) \/ sampled[i]]
    ELSE sampled

\* Lines 121-123: the threshold override.
Selection(threshold, losses, sampled) ==
    IF threshold # 0
    THEN [i \in DOMAIN losses |-> (losses[i] > threshold) \/ sampled[i]]
    ELSE sampled

\* ------------------------------------------------------------ actions
\* The fields as a call finds them.
Pre ==
    [loss_hist |-> loss_hist, selected_inputs |-> selected_inputs,
     selected_targets |-> selected_targets, training |-> training,
     updates |-> updates, batch_size |-> batch_size,
     epoch_length |-> epoch_length,
     loss_selection_threshold |-> loss_selection_threshold,
     capacity |-> Capacity]

\* The record of a call that has not happened.
NoCall ==
    [outcome |-> "none", n |-> 0, losses |-> << >>, draws |-> << >>,
     rows_data |-> 0, rows_targets |-> 0, fail |-> NoFail,
     pre |-> [loss_hist |-> << >>, selected_inputs |-> << >>,
              selected_targets |-> << >>, training |-> FALSE, updates |-> 0,
              batch_size |-> 0, epoch_length |-> 0,
              loss_selection_threshold |-> 0, capacity |-> 0],
     hist |-> << >>, ranked |-> << >>, percentiles |-> << >>,
     probabilities |-> << >>, sampled |-> << >>, selection |-> << >>,
     cursor |-> 0, fires |-> << >>, events |-> << >>, ret |-> NoValue]

\* Mutant of Body: the ranks are computed before the losses are recorded.
BodyRanksFirst(losses, draws, rows_data, rows_targets, fail) ==
    LET ranked        == loss_hist
        hist          == DequeExtend(loss_hist, losses, Capacity)
        percentiles   == PercentilesOf(ranked, losses)
        probabilities == SelectionProbabilities(ranked, losses)
        sampled       == Sampled(probabilities, draws)
        selection     == Selection(loss_selection_threshold, losses, sampled)
        c   == [n |-> calls + 1, selection |-> selection,
                rows_data |-> rows_data, rows_targets |-> rows_targets,
                fail |-> fail, batch_size |-> batch_size]
        st0 == [selected_inputs |-> selected_inputs,
                selected_targets |-> selected_targets,
                training |-> training, updates |-> updates,
                fires |-> << >>, events |-> << >>,
                effective_batch_loss |-> NoValue, raised |-> "none"]
    IN [hist |-> hist, ranked |-> ranked, percentiles |-> percentiles,
        cursor |-> IF ranked = << >> THEN 0
                   ELSE WalkTable[<< ranked, losses >>][1],
        probabilities |-> probabilities, sampled |-> sampled,
        selection |-> selection, end |-> Loop(c, 1, st0)]

\* Lines 112-147 up to the return or the exception: the locals and fields
\* at the end of the body, from the fields before the call.  hist is
\* self.loss_hist after line 116, ranked the self.loss_hist line 150 hands
\* to _percentiles.
Body(losses, draws, rows_data, rows_targets, fail) ==
    LET hist          == DequeExtend(loss_hist, losses, Capacity)
        ranked        == hist
        percentiles   == PercentilesOf(ranked, losses)
        probabilities == SelectionProbabilities(ranked, losses)
        sampled       == Sampled(probabilities, draws)
        selection     == Selection(loss_selection_threshold, losses, sampled)
        c   == [n |-> calls + 1, selection |-> selection,
                rows_data |-> rows_data, rows_targets |-> rows_targets,
                fail |-> fail, batch_size |-> batch_size]
        st0 == [selected_inputs |-> selected_inputs,
                selected_targets |-> selected_targets,
                training |-> training, updates |-> updates,
                fires |-> << >>, events |-> << >>,
                effective_batch_loss |-> NoValue, raised |-> "none"]
    IN [hist |-> hist, ranked |-> ranked, percentiles |-> percentiles,
        cursor |-> IF ranked = << >> THEN 0
                   ELSE WalkTable[<< ranked, losses >>][1],
        probabilities |-> probabilities, sampled |-> sampled,
        selection |-> selection, end |-> Loop(c, 1, st0)]

\* selective_back_propagation(loss_per_img, data, targets), lines 106-147,
\* with the draws np.random.random returns and the collaborators' conduct.
\* rows_data and rows_targets are the numbers of rows of data and targets.
\* A collaborator that is to raise in a fire the call does not reach is the
\* same call as one whose collaborators do not raise.
Call(losses, draws, rows_data, rows_targets, fail) ==
    \E b \in {Body(losses, draws, rows_data, rows_targets, fail)} :
       /\ fail # NoFail => Len(b.end.fires) >= fail[2]
       /\ calls' = calls + 1
       /\ recorded' = recorded \o losses
       /\ loss_hist' = b.hist
       /\ selected_inputs' = b.end.selected_inputs
       /\ selected_targets' = b.end.selected_targets
       /\ training' = b.end.training
       /\ updates' = b.end.updates
       /\ selected' = selected
                        + Cardinality({i \in DOMAIN b.selection : b.selection[i]})
       /\ raised' = (raised \/ b.end.raised # "none")
       /\ last' = [outcome |-> IF b.end.raised = "none" THEN "returned"
                               ELSE b.end.raised,
                   n |-> calls + 1, losses |-> losses, draws |-> draws,
                   rows_data |-> rows_data, rows_targets |-> rows_targets,
                   fail |-> fail, pre |-> Pre,
                   hist |-> b.hist, ranked |-> b.ranked,
                   cursor |-> b.cursor, percentiles |-> b.percentiles,
                   probabilities |-> b.probabilities, sampled |-> b.sampled,
                   selection |-> b.selection, fires |-> b.end.fires,
                   events |-> b.end.events,
                   ret |-> IF b.end.raised = "none"
                           THEN b.end.effective_batch_loss ELSE NoValue]
       /\ UNCHANGED << config, constructed >>

\* A call whose data and targets have as many rows as there are losses.
\* A collaborator can raise in the fires the call gets to when none raises.
Process ==
    /\ calls < MaxCalls
    /\ constructed
    /\ \E losses \in Batches(LossVals) :
           \E draws \in [1..Len(losses) -> DrawVals] :
               \E b \in {Body(losses, draws, Len(losses), Len(losses), NoFail)} :
                   \E fail \in {f \in Fails : f[2] <= Len(b.end.fires)} :
                       Call(losses, draws, Len(losses), Len(losses), fail)

\* A call whose data or targets do not have as many rows as there are
\* losses: data one short, targets one short, or both one too long.  Every
\* example gets the smallest draw; the collaborators do not raise.
ProcessMismatched ==
    /\ calls < MaxCalls
    /\ constructed
    /\ \E losses \in Batches(MismatchedLossVals), d \in {0} :
           \E rows \in {<< Len(losses) - 1, Len(losses) >>,
                        << Len(losses), Len(losses) - 1 >>,
                        << Len(losses) + 1, Len(losses) + 1 >>} :
               Call(losses, [i \in 1..Len(losses) |-> d], rows[1], rows[2],
                    NoFail)

\* A call of an instance whose history holds nothing (maxlen 0), in which
\* np.percentile raises on the empty history (line 161, reached from line
\* 117): the losses have been handed to loss_hist.extend, nothing else has
\* happened.  Whether np.percentile raises or returns cut-points that are
\* not numbers is up to the numpy in use; the calls of the second kind are
\* among those of Process.
ProcessNoHistory ==
    /\ calls < MaxCalls
    /\ constructed
    /\ Capacity = 0
    /\ \E losses \in Batches(LossVals) :
           /\ calls' = calls + 1
           /\ recorded' = recorded \o losses
           /\ loss_hist' = DequeExtend(loss_hist, losses, Capacity)
           /\ raised' = TRUE
           /\ last' = [NoCall EXCEPT !.outcome = "percentile",
                                     !.n = calls + 1, !.losses = losses,
                                     !.rows_data = Len(losses),
                                     !.rows_targets = Len(losses),
                                     !.pre = Pre]
           /\ UNCHANGED << config, constructed, selected_inputs,
                           selected_targets, training, updates, selected >>

\* __init__(..., batch_size, epoch_length, loss_selection_threshold), lines
\* 91-103: nothing is checked, and line 98 is the one statement that can
\* raise: deque([], maxlen) raises ValueError for a negative maxlen, and
\* then there is no instance.  The model is handed over in training mode,
\* the mode of a module nobody has switched (the usage of lines 36-50 does
\* not switch it).
New(bs, el, thr) ==
    /\ batch_size = bs
    /\ epoch_length = el
    /\ loss_selection_threshold = thr
    /\ constructed = (bs * el >= 0)
    /\ loss_hist = << >>
    /\ selected_inputs = << >>
    /\ selected_targets = << >>
    /\ training = TRUE
    /\ updates = 0
    /\ calls = 0
    /\ recorded = << >>
    /\ selected = 0
    /\ raised = FALSE
    /\ last = NoCall

\* The instances of positive batch_size and epoch_length, with the
\* threshold off or positive.
Init ==
    \E bs \in BatchSizes, el \in EpochLengths, thr \in Thresholds :
        New(bs, el, thr)

Next == Process \/ ProcessMismatched

Spec == Init /\ [][Next]_vars

\* A call of _percentiles(hist_values, values_to_search), lines 153-173, on
\* a history and queries of the caller's choice, on a new instance: no
\* field changes; what went in and came out is noted.
Rank ==
    \E hist \in Histories, vals \in Batches(LossVals) :
        /\ constructed
        /\ last = NoCall
        /\ last' = [NoCall EXCEPT !.outcome = "ranked", !.losses = vals,
                                  !.ranked = hist,
                                  !.cursor = WalkTable[<< hist, vals >>][1],
                                  !.percentiles =
                                      WalkTable[<< hist, vals >>][2]]
        /\ UNCHANGED << config, constructed, loss_hist, selected_inputs,
                        selected_targets, training, updates, calls, recorded,
                        selected, raised >>

SpecPercentiles == Init /\ [][Rank]_vars

\* The constructions with any sign of batch_size, epoch_length and
\* loss_selection_threshold, and the calls of what they construct.
InitAnyConfig ==
    \E bs \in AnyBatchSizes, el \in AnyEpochLengths, thr \in AnyThresholds :
        New(bs, el, thr)

NextAnyConfig == Process \/ ProcessMismatched \/ ProcessNoHistory

SpecAnyConfig == InitAnyConfig /\ [][NextAnyConfig]_vars

\* ============================================================= claims
\* Vocabulary of the claims, over the record of the last call.

Called == last.outcome # "none"
Returned == last.outcome = "returned"

RECURSIVE SelectedUpTo(_, _)
\* The selected indices among 1..n of a mask, ascending.
SelectedUpTo(mask, n) ==
    IF n = 0 THEN << >>
    ELSE IF mask[n] THEN Append(SelectedUpTo(mask, n - 1), n)
    ELSE SelectedUpTo(mask, n - 1)

\* The indices the last call selected, ascending.
Chosen == SelectedUpTo(last.selection, Len(last.selection))

\* The accumulator before the last call followed by the rows the call
\* selected, in selection order.
StreamInputs ==
    last.pre.selected_inputs \o [j \in 1..Len(Chosen) |-> DataRow(last.n, Chosen[j])]
StreamTargets ==
    last.pre.selected_targets \o [j \in 1..Len(Chosen) |-> TargetRow(last.n, Chosen[j])]

\* The accumulator before the last call held pairs, fewer than batch_size:
\* the state every sequence of calls without an exception leaves behind.
CleanBefore ==
    /\ Len(last.pre.selected_inputs) = Len(last.pre.selected_targets)
    /\ Len(last.pre.selected_targets) < batch_size

\* The elements of a sequence.
Range(s) == {s[i] : i \in DOMAIN s}

\* ----------------------------------------------------------------- C1
\* C1: after any sequence of calls the history is no longer than
\* batch_size * epoch_length and holds exactly the most recent
\* min(total recorded, capacity) losses, in the order they were recorded.
C1_HistoryBoundFifo ==
    LET cap == batch_size * epoch_length
        tot == Len(recorded)
        n   == IF tot <= cap THEN tot ELSE cap
    IN /\ Len(loss_hist) <= cap
       /\ Len(loss_hist) = n
       /\ \A i \in 1..n : loss_hist[i] = recorded[tot - n + i]

\* Two calls have recorded more losses than the history can hold, each
\* call by itself fewer: the second call has evicted the oldest.
C1_Witness ==
    /\ calls = 2
    /\ batch_size * epoch_length = 2
    /\ Len(last.losses) = 1
    /\ Len(recorded) = 3
    /\ recorded[1] # recorded[3]
    /\ loss_hist = << recorded[2], recorded[3] >>

\* ----------------------------------------------------------------- C2
\* C2: in one call, for the history the call ranks against, a smaller loss
\* never has a larger percentile rank than a larger loss.
C2_PercentileMonotone ==
    \A i, j \in DOMAIN last.losses :
        last.losses[i] < last.losses[j]
            => last.percentiles[i] <= last.percentiles[j]

\* ----------------------------------------------------------------- C3
\* C3: when the accumulator (pairs, fewer than batch_size, gathered since it
\* was last empty) and the selections of a call that returns add up to
\* exactly batch_size, the call fires exactly once, on exactly the
\* accumulated and the newly selected rows in selection order, and leaves
\* the accumulator empty.
C3_MiniBatchFiring ==
    (Returned /\ CleanBefore
        /\ Len(last.pre.selected_targets) + Len(Chosen) = batch_size)
    => /\ last.fires = << [inputs |-> StreamInputs, targets |-> StreamTargets] >>
       /\ updates = last.pre.updates + 1
       /\ selected_inputs = << >>
       /\ selected_targets = << >>

\* The batch of two completes across two calls: one example selected in the
\* first call, one in the second.
C3_Witness ==
    /\ Returned /\ CleanBefore
    /\ batch_size = 2
    /\ last.n = 2
    /\ last.pre.selected_inputs = << DataRow(1, 2) >>
    /\ Len(Chosen) = 1
    /\ Len(last.fires) = 1
    /\ last.fires[1].targets = << TargetRow(1, 2), TargetRow(2, Chosen[1]) >>

C5_ThresholdForceSelect ==
    (Called /\ loss_selection_threshold > 0)
    => \A i \in DOMAIN last.losses :
           last.losses[i] > loss_selection_threshold
           => /\ last.selection[i]
              /\ Returned =>
                    DataRow(last.n, i) \in
                        Range(selected_inputs) \cup
                        UNION {Range(last.fires[k].inputs) : k \in DOMAIN last.fires}

\* An example above the threshold with rank 0 and the largest draw is
\* selected.
C5_Witness ==
    /\ Returned
    /\ loss_selection_threshold = 1
    /\ \E i \in DOMAIN last.losses :
           /\ last.losses[i] = 2
           /\ last.draws[i] = 9999
           /\ last.percentiles[i] = 0
           /\ ~last.sampled[i]
           /\ last.selection[i]
           /\ DataRow(last.n, i) \in Range(selected_inputs)

\* ----------------------------------------------------------------- C6
\* C6: for the same history, losses and draws, the mask with threshold T
\* contains the mask with the threshold disabled, and the two agree on
\* every example whose loss is <= T.
C6_ThresholdOnlyAdds ==
    (Called /\ loss_selection_threshold > 0)
    => LET disabled == Selection(0, last.losses, last.sampled)
       IN \A i \in DOMAIN last.losses :
              /\ disabled[i] => last.selection[i]
              /\ last.losses[i] <= loss_selection_threshold
                     => last.selection[i] = disabled[i]

\* One call with an example at the threshold that the draw rejects, one
\* below it that the draw selects, and one above it that only the threshold
\* selects.
C6_Witness ==
    /\ Called
    /\ loss_selection_threshold = 1
    /\ \E i, j \in DOMAIN last.losses :
           /\ last.losses[i] = 1 /\ ~last.selection[i]
           /\ last.losses[j] = 2 /\ last.selection[j] /\ ~last.sampled[j]
    /\ \E p \in DOMAIN last.pre.loss_hist : TRUE

\* ----------------------------------------------------------------- C7
\* C7: every selection probability of a call is the square of the rank
\* index k in 0..99 (k * k / 10000, in [0,1]) and an example is selected by
\* the probabilistic path iff its probability is strictly greater than its
\* draw.
C7_ProbabilityFormula ==
    Called =>
        \A i \in DOMAIN last.losses :
            /\ last.percentiles[i] \in 0..99
            /\ last.probabilities[i] = last.percentiles[i] * last.percentiles[i]
            /\ last.probabilities[i] >= 0 /\ last.probabilities[i] <= 10000
            /\ last.sampled[i] <=> (last.probabilities[i] > last.draws[i])

\* One call with an example of positive probability that its draw selects,
\* and one of probability 0 whose draw is 0 and that is not selected.
C7_Witness ==
    /\ Called
    /\ \E i, j \in DOMAIN last.losses :
           /\ last.probabilities[i] > 0 /\ last.draws[i] = 0 /\ last.sampled[i]
           /\ last.probabilities[j] = 0 /\ last.draws[j] = 0 /\ ~last.sampled[j]

\* ----------------------------------------------------------------- C8
\* C8: a call that fires and returns, returns the mean loss of its last
\* fire (of its only fire when there is one).
C8_ReturnsLastFire ==
    (Returned /\ last.fires # << >>)
    => /\ updates = last.pre.updates + Len(last.fires)
       /\ last.ret = MeanLoss(last.pre.updates + Len(last.fires))

\* Two mini-batches fire in one call, after an earlier fire.
C8_Witness ==
    /\ Returned
    /\ Len(last.fires) = 2
    /\ last.pre.updates = 1
    /\ last.ret = MeanLoss(3)

\* ---------------------------------------------------------------- C10
\* C10: a call whose loss vector has another length than data or targets
\* have rows raises, and leaves the history, the accumulator and the model
\* mode as they were.
C10_MismatchFailsFast ==
    (Called /\ (last.rows_data # Len(last.losses)
                \/ last.rows_targets # Len(last.losses)))
    => /\ ~Returned
       /\ loss_hist = last.pre.loss_hist
       /\ selected_inputs = last.pre.selected_inputs
       /\ selected_targets = last.pre.selected_targets
       /\ training = last.pre.training


\* ---------------------------------------------------------------- C11
\* The arguments the instance was constructed with are not all usable:
\* batch_size or epoch_length is not positive, or the threshold is a
\* negative number (the number 0 is, like False, the falsy value the model
\* writes 0).
Misconfigured ==
    batch_size <= 0 \/ epoch_length <= 0 \/ loss_selection_threshold < 0

\* C11: a construction with batch_size <= 0, epoch_length <= 0 or a
\* threshold number <= 0 fails, so that there is no instance of such a
\* configuration and no call of one ever happens.
C11_MisconfigurationRejected ==
    Misconfigured => (~constructed /\ calls = 0)


\* ---------------------------------------------------------------- C12
\* The collaborators of a fire.
Collaborators == {"forward", "loss", "update"}

\* The rows of the last call that are in the accumulator or in a stack a
\* fire of the call worked on.
Processed ==
    UNION {Range(last.fires[k].targets) : k \in DOMAIN last.fires}
        \cup Range(selected_targets)

\* C12: when the model's forward pass, compute_losses_func or
\* update_weights_func raises in a fire, the call ends with that very
\* exception: it raises what the collaborator raised, returns no value, the
\* failing invocation is the last thing the call does, and no selected
\* example after the one that completed the batch is touched.
C12_CollaboratorErrorPropagates ==
    (Called /\ last.fail # NoFail) =>
        LET k    == last.fail[2]
            done == (k - 1) * batch_size + (batch_size - Len(last.pre.selected_targets))
        IN /\ last.outcome = last.fail[1]
           /\ last.ret = NoValue
           /\ Len(last.fires) = k
           /\ last.events[Len(last.events)].op = last.fail[1]
           /\ selected_targets = last.fires[k].targets
           /\ selected_inputs = last.fires[k].inputs
           /\ CleanBefore =>
                  \A j \in 1..Len(Chosen) :
                      j > done => TargetRow(last.n, Chosen[j]) \notin Processed

\* A collaborator raised in the first fire of a call that had selected a
\* further example.
C12_Witness ==
    /\ last.outcome \in Collaborators
    /\ CleanBefore
    /\ batch_size = 1
    /\ Len(last.fires) = 1
    /\ Len(Chosen) = 2


\* ---------------------------------------------------------------- C13
\* C13: as long as no call has raised, with S the number of examples the
\* calls have selected so far: update_weights_func has been invoked
\* S div batch_size times and the accumulator holds S mod batch_size
\* examples (fewer than batch_size); a fire comes with the very example
\* that completes a batch, in the middle of an incoming batch too: the
\* k-th fire of a call works on the k-th run of batch_size examples of the
\* accumulator-then-selections stream, and what is left over afterwards
\* is the new accumulator.
C13_FireCountAndResidue ==
    ~raised =>
        /\ updates = selected \div batch_size
        /\ Len(selected_targets) = selected % batch_size
        /\ Len(selected_inputs) = selected % batch_size
        /\ Len(selected_targets) < batch_size
        /\ Called =>
              LET f == Len(last.fires)
              IN /\ f = Len(StreamTargets) \div batch_size
                 /\ \A k \in 1..f :
                       /\ last.fires[k].targets =
                            SubSeq(StreamTargets, (k - 1) * batch_size + 1,
                                   k * batch_size)
                       /\ last.fires[k].inputs =
                            SubSeq(StreamInputs, (k - 1) * batch_size + 1,
                                   k * batch_size)
                 /\ selected_targets =
                      SubSeq(StreamTargets, f * batch_size + 1, Len(StreamTargets))
                 /\ selected_inputs =
                      SubSeq(StreamInputs, f * batch_size + 1, Len(StreamInputs))

\* With batch_size 2 and one example accumulated, a call selected two: the
\* first completed the batch and fired, the second started the next one.
C13_Witness ==
    /\ ~raised
    /\ batch_size = 2
    /\ calls = 2
    /\ Len(last.pre.selected_targets) = 1
    /\ Len(Chosen) = 2
    /\ updates = 1
    /\ selected = 3
    /\ selected_targets = << TargetRow(2, 2) >>


\* ---------------------------------------------------------------- C14
\* The steps of a fire the claim names, in its order.
FireSteps == << "train", "forward", "loss", "update", "eval", "reset" >>

\* Those steps as the last call took them.
StepsTaken == SelectSeq(last.events, LAMBDA e : e.op \in Range(FireSteps))

\* C14: every fire does model.train(), the forward pass on the stacked
\* inputs, compute_losses_func, update_weights_func, model.eval() and the
\* reset of the accumulator, in this order and each once (a fire that a
\* collaborator's exception ends does them up to that invocation); so
\* after a call that returned and fired the model is in evaluation mode,
\* and update_weights_func was invoked in training mode only.
C14_FireStepOrder ==
    Called =>
        /\ \A j \in 1..Len(StepsTaken) :
               StepsTaken[j].op = FireSteps[((j - 1) % 6) + 1]
        /\ Returned => Len(StepsTaken) = 6 * Len(last.fires)
        /\ \A j \in 1..Len(StepsTaken) :
               StepsTaken[j].op \in Collaborators => StepsTaken[j].training
        /\ (Returned /\ last.fires # << >>) =>
               ~training

\* A call that fired twice and returned.
C14_Witness ==
    /\ Returned
    /\ Len(last.fires) = 2
    /\ Len(StepsTaken) = 12
    /\ ~training


\* ---------------------------------------------------------------- C15
\* C15: the incoming losses are recorded before the ranks are computed:
\* the history _percentiles is handed is the one the call leaves behind,
\* and its tail is the last min(Q, capacity) losses of the call; so it is
\* not empty when Q >= 1 and the capacity is >= 1, on the first call too.
C15_RecordBeforeRank ==
    Called =>
        LET q == Len(last.losses)
            m == IF q < last.pre.capacity THEN q ELSE last.pre.capacity
        IN /\ last.ranked = loss_hist
           /\ last.ranked = DequeExtend(last.pre.loss_hist, last.losses,
                                        last.pre.capacity)
           /\ LastN(last.ranked, m) = LastN(last.losses, m)
           /\ (q >= 1 /\ last.pre.capacity >= 1) => last.ranked # << >>

\* The first call of an instance of capacity 1, with two losses: the
\* history that was ranked against is the second loss.
C15_Witness ==
    /\ calls = 1
    /\ last.pre.loss_hist = << >>
    /\ last.pre.capacity = 1
    /\ Len(last.losses) = 2
    /\ last.ranked = << last.losses[2] >>


\* ---------------------------------------------------------------- C16
\* The largest value of a non-empty sequence.
MaxOf(s) == CHOOSE v \in Range(s) : \A w \in Range(s) : w <= v

\* C16: a query that is not below the 99th cut-point is never dequeued by
\* the walk and keeps rank 0: its selection probability is 0, no draw
\* samples it, and with the threshold disabled it is not selected.  In a
\* call that is the case of every incoming example whose loss is the
\* maximum of the updated history.
C16_CeilingQuirk ==
    Called =>
        LET top == Cut100(SortValues(last.ranked), 99)
        IN \A i \in 1..Len(last.losses) :
              /\ last.losses[i] = MaxOf(last.ranked) => 100 * last.losses[i] >= top
              /\ 100 * last.losses[i] >= top =>
                    /\ last.percentiles[i] = 0
                    /\ last.probabilities[i] = 0
                    /\ ~last.sampled[i]
                    /\ loss_selection_threshold = 0 => ~last.selection[i]

\* With the threshold disabled and the smallest draws, the example of the
\* largest loss of the history is not selected while a smaller one is.
C16_Witness ==
    /\ Returned
    /\ loss_selection_threshold = 0
    /\ Len(last.losses) = 2
    /\ last.losses[2] = MaxOf(last.ranked)
    /\ last.losses[1] < last.losses[2]
    /\ last.draws = << 0, 0 >>
    /\ last.selection = << TRUE, FALSE >>

\* ---------------------------------------------------------------- C17
\* min{k in 0..99 : q < c_k} for the cut-points c of a history (times
\* 100), or 0 when no cut-point exceeds q.
RankOf(hist, q) ==
    LET cuts == PercentilesValues(hist)
        ks   == {k \in 0..99 : 100 * q < cuts[k]}
    IN IF ks = {} THEN 0 ELSE CHOOSE k \in ks : \A j \in ks : k <= j

\* C17: for every non-empty history and every non-empty vector of queries
\* the walk with the single cursor gives every query q the rank index
\* min{k : q < c_k}, or 0 when there is none; the rank of a query does not
\* depend on where it stands among the queries nor on the other queries;
\* and the walk ends with the cursor on the number of queries that got a
\* cut-point, never past the end of the sorted queries.
C17_WalkIsPerQueryRank ==
    last.outcome = "ranked" =>
        LET hist == last.ranked
            vals == last.losses
            cuts == PercentilesValues(hist)
        IN /\ Len(last.percentiles) = Len(vals)
           /\ \A k \in 0..98 : cuts[k] <= cuts[k + 1]
           /\ \A i \in 1..Len(vals) : last.percentiles[i] = RankOf(hist, vals[i])
           /\ \A other \in Batches(LossVals) :
                 \A i \in 1..Len(vals), j \in 1..Len(other) :
                     other[j] = vals[i] =>
                         WalkTable[<< hist, other >>][2][j] = last.percentiles[i]
           /\ last.cursor <= Len(vals)
           /\ last.cursor =
                 Cardinality({i \in 1..Len(vals) : 100 * vals[i] < cuts[99]})

\* Two queries handed over in descending order, both below a cut-point
\* and of different ranks: the walk takes the second first.
C17_Witness ==
    /\ last.outcome = "ranked"
    /\ Len(last.losses) = 2
    /\ last.losses[1] > last.losses[2]
    /\ last.cursor = 2
    /\ last.percentiles[1] > last.percentiles[2]
    /\ last.percentiles[2] > 0


\* ---------------------------------------------------------------- C18
\* C18: the accumulator is reset after update_weights_func and
\* model.eval() have returned only, so a call in which a collaborator of
\* a fire raises leaves batch_size examples accumulated and the model in
\* training mode; and a call that finds batch_size or more examples
\* accumulated does not fire: every example it selects makes the
\* accumulator longer, update_weights_func is not invoked, the model stays
\* in training mode and no value is returned.
C18_StuckAfterFailedFire ==
    Called =>
        /\ last.outcome \in Collaborators =>
              /\ Len(selected_targets) = batch_size
              /\ CleanBefore => Len(selected_inputs) = batch_size
              /\ training
        /\ Len(last.pre.selected_targets) >= batch_size =>
              /\ last.pre.training
              /\ training
              /\ last.fires = << >>
              /\ last.events = << >>
              /\ updates = last.pre.updates
              /\ last.ret = NoValue
              /\ Len(selected_targets) >= Len(last.pre.selected_targets)
              /\ Returned => selected_targets = StreamTargets

\* The call after a failed fire selected an example: the accumulator is
\* longer than batch_size and nothing fired.
C18_Witness ==
    /\ calls = 2
    /\ Returned
    /\ Len(last.pre.selected_targets) = batch_size
    /\ Len(Chosen) >= 1
    /\ Len(selected_targets) > batch_size
    /\ updates = last.pre.updates

\* ---------------------------------------------------------------- C19
\* C19: a call whose selection mask is all false changes the loss history
\* only: both lists of the accumulator, the mode of the model, batch_size,
\* the threshold and the capacity of the history are what they were, no
\* collaborator is invoked, and the call returns no value.
C19_NoSelectionFrame ==
    (Called /\ Chosen = << >>) =>
        /\ Returned
        /\ last.ret = NoValue
        /\ selected_inputs = last.pre.selected_inputs
        /\ selected_targets = last.pre.selected_targets
        /\ training = last.pre.training
        /\ updates = last.pre.updates
        /\ last.events = << >>
        /\ last.fires = << >>
        /\ batch_size = last.pre.batch_size
        /\ epoch_length = last.pre.epoch_length
        /\ loss_selection_threshold = last.pre.loss_selection_threshold
        /\ Capacity = last.pre.capacity
        /\ loss_hist = DequeExtend(last.pre.loss_hist, last.losses, Capacity)

\* A call of two examples selected none while one example was accumulated
\* from the call before; the history changed.
C19_Witness ==
    /\ calls = 2
    /\ Returned
    /\ Len(last.losses) = 2
    /\ Chosen = << >>
    /\ last.pre.selected_targets # << >>
    /\ selected_targets = last.pre.selected_targets
    /\ loss_hist # last.pre.loss_hist

=============================================================================
